---- MODULE Spec2Model ----
(***************************************************************************)
(* A model of the aurora-ray path tracer: the sphere intersection test,    *)
(* the scene aggregate, the materials, the recursive integrator and the    *)
(* row-parallel render loop of the camera.                                 *)
(*                                                                         *)
(* Numbers.  An f64 value v is represented by the integer v * One (fixed   *)
(* point, three decimal digits).  Products and quotients round toward      *)
(* zero, so that, as in IEEE arithmetic, negation is exact and commutes    *)
(* with every operation.  f64::INFINITY and NaN are the values Inf, NaN.   *)
(***************************************************************************)
EXTENDS Integers, Sequences, FiniteSets, TLC

VARIABLES
  query,     \* an intersection query: the ray, the objects, the interval
  answer,    \* what the query returned
  phase,     \* "start", then "list", "sphere" or "scatter": what was called
  camera,    \* the Camera render is called on
  scene,     \* the HittableList render is called with
  pc,        \* where render's own thread is: "create", "header", "compute",
             \* "write", then "done" (Ok), "err" (Err returned) or "panic"
  out,       \* the lines given to the BufWriter so far
  bar,       \* the position of the progress bar
  rows,      \* per row index: "todo", "run" or "done", the row's pixels and
             \* how many pixels were computed for it
  wk,        \* per worker thread: the row it is on, the pixels of that row
             \* made so far, its thread-local generators and the seeds they
             \* were made from
  done_order,\* the row indices in the order the rows were completed
  pixels,    \* the collected Vec of pixels, once collected
  builder,   \* a CameraBuilder: its ten Option fields
  built,     \* the Camera build returned, None before
  calls      \* the setter calls made on the builder, in order, and the
             \* number of calls of Camera::initialize

\* ------------------------------------------------------------------ bounds
MaxObjects == 2      \* primitives in a scene of the intersection queries
NumWorkers == 2      \* threads of the rayon pool
MaxSets == 3         \* setter calls made on a builder
MaxPieces == 2       \* contiguous pieces the pool splits a range of rows into

\* ------------------------------------------------------------- f64 numbers
One == 10^3
Inf == 10^9
NaN == -(10^9)

Abs(x) == IF x < 0 THEN -x ELSE x

\* division rounding toward zero
TDiv(x, y) ==
  IF (x < 0) = (y < 0) THEN Abs(x) \div Abs(y) ELSE -(Abs(x) \div Abs(y))

FMul(x, y) == TDiv(x * y, One)
FDiv(x, y) == TDiv(x * One, y)

RECURSIVE ISqrtIn(_, _, _)
ISqrtIn(n, lo, hi) ==
  IF lo >= hi THEN lo
  ELSE LET mid == (lo + hi + 1) \div 2
       IN IF mid * mid <= n THEN ISqrtIn(n, mid, hi) ELSE ISqrtIn(n, lo, mid - 1)

\* f64::sqrt of a non-negative value
FSqrt(x) == ISqrtIn(x * One, 0, 46340)

FMin(x, y) == IF x < y THEN x ELSE y

\* --------------------------------------------------------------- glam DVec3
Vec(x, y, z) == <<x, y, z>>
ZERO == Vec(0, 0, 0)
VAdd(a, b) == Vec(a[1] + b[1], a[2] + b[2], a[3] + b[3])
VSub(a, b) == Vec(a[1] - b[1], a[2] - b[2], a[3] - b[3])
VNeg(a) == Vec(-a[1], -a[2], -a[3])
VScale(s, a) == Vec(FMul(s, a[1]), FMul(s, a[2]), FMul(s, a[3]))
VDivS(a, s) == Vec(FDiv(a[1], s), FDiv(a[2], s), FDiv(a[3], s))
VMul(a, b) == Vec(FMul(a[1], b[1]), FMul(a[2], b[2]), FMul(a[3], b[3]))
VDot(a, b) == FMul(a[1], b[1]) + FMul(a[2], b[2]) + FMul(a[3], b[3])
VCross(a, b) ==
  Vec(FMul(a[2], b[3]) - FMul(b[2], a[3]),
      FMul(a[3], b[1]) - FMul(b[3], a[1]),
      FMul(a[1], b[2]) - FMul(b[1], a[2]))
VLengthSq(a) == VDot(a, a)
VLength(a) == FSqrt(VLengthSq(a))
VNormalize(a) == VDivS(a, VLength(a))

\* Option<T>: None is the empty sequence, Some(x) the sequence of x alone
None == <<>>
Some(x) == <<x>>
IsSome(o) == o # None
Unwrap(o) == o[1]

\* ---------------------------------------------------------------------- Ray
Ray(origin, direction) == [origin |-> origin, direction |-> direction]
RayAt(ray, t) == VAdd(ray.origin, VScale(t, ray.direction))

\* std::ops::Range<f64>
Range(start, end) == [start |-> start, end |-> end]

RangeContainsOpenEnd(interval, x) == interval.start <= x /\ x <= interval.end

\* Range::contains: start <= x < end
RangeContains(interval, x) == interval.start <= x /\ x < interval.end

\* ----------------------------------------------------------------- Material
Lambertian(albedo) == [kind |-> "Lambertian", albedo |-> albedo, fuzz |-> 0, refractive_index |-> 0]
Metal(albedo, fuzz) == [kind |-> "Metal", albedo |-> albedo, fuzz |-> fuzz, refractive_index |-> 0]
Dielectric(ri) == [kind |-> "Dielectric", albedo |-> ZERO, fuzz |-> 0, refractive_index |-> ri]

\* ---------------------------------------------------------------- HitRecord
CalculateFaceNormalNoFlip(ray, outward_normal) ==
  IF VDot(ray.direction, outward_normal) > 0
  THEN <<outward_normal, FALSE>>
  ELSE <<outward_normal, TRUE>>

\* HitRecord::calculate_face_normal: <<normal, front_face>>
CalculateFaceNormal(ray, outward_normal) ==
  IF VDot(ray.direction, outward_normal) > 0
  THEN <<VNeg(outward_normal), FALSE>>
  ELSE <<outward_normal, TRUE>>

\* HitRecord::new.  The field the source calls outward_normal holds the
\* oriented normal.
HitRecordNew(point, outward_normal, t, ray, material) ==
  LET nf == CalculateFaceNormal(ray, outward_normal)
  IN [point |-> point, outward_normal |-> nf[1], t |-> t,
      front_face |-> nf[2], material |-> material]

\* ------------------------------------------------------------------- Sphere
Sphere(center, radius, material) ==
  [center |-> center, radius |-> radius, material |-> material]

\* the coefficients of the quadratic of Sphere::hit
SphereOc(s, ray) == VSub(s.center, ray.origin)
SphereA(s, ray) == VDot(ray.direction, ray.direction)
SphereH(s, ray) == VDot(ray.direction, SphereOc(s, ray))
SphereC(s, ray) == VDot(SphereOc(s, ray), SphereOc(s, ray)) - FMul(s.radius, s.radius)
SphereDisc(s, ray) ==
  FMul(SphereH(s, ray), SphereH(s, ray)) - FMul(SphereA(s, ray), SphereC(s, ray))
SphereRootNear(s, ray) ==
  FDiv(SphereH(s, ray) - FSqrt(SphereDisc(s, ray)), SphereA(s, ray))
SphereRootFar(s, ray) ==
  FDiv(SphereH(s, ray) + FSqrt(SphereDisc(s, ray)), SphereA(s, ray))

SphereHitAt(s, ray, t) ==
  LET point == RayAt(ray, t)
      outward_normal == VDivS(VSub(point, s.center), s.radius)
  IN Some(HitRecordNew(point, outward_normal, t, ray, s.material))

SphereHitFarFirst(s, ray, interval) ==
  IF SphereDisc(s, ray) < 0 THEN None
  ELSE IF RangeContains(interval, SphereRootFar(s, ray))
       THEN SphereHitAt(s, ray, SphereRootFar(s, ray))
       ELSE IF RangeContains(interval, SphereRootNear(s, ray))
            THEN SphereHitAt(s, ray, SphereRootNear(s, ray))
            ELSE None

\* Sphere::hit
SphereHit(s, ray, interval) ==
  IF SphereDisc(s, ray) < 0 THEN None
  ELSE IF RangeContains(interval, SphereRootNear(s, ray))
       THEN SphereHitAt(s, ray, SphereRootNear(s, ray))
       ELSE IF RangeContains(interval, SphereRootFar(s, ray))
            THEN SphereHitAt(s, ray, SphereRootFar(s, ray))
            ELSE None

\* ------------------------------------------------------------- HittableList
\* One step of the fold of HittableList::hit.  acc is the accumulator
\* (closest_t, hit_record) of the source, with the list of the queries made
\* so far (object index, upper bound passed) kept beside it.
HitFoldStepNoNarrow(acc, i, object, ray, interval) ==
  LET q == Append(acc.queries, [index |-> i, end |-> interval.end])
      Of(h) == IF IsSome(h)
               THEN [closest |-> Unwrap(h).t, hit |-> h, queries |-> q]
               ELSE [acc EXCEPT !.queries = q]
  IN Of(SphereHit(object, ray, Range(interval.start, interval.end)))

HitFoldStepTieLast(acc, i, object, ray, interval) ==
  LET q == Append(acc.queries, [index |-> i, end |-> acc.closest])
      Of(h) == IF IsSome(h)
               THEN [closest |-> Unwrap(h).t, hit |-> h, queries |-> q]
               ELSE [acc EXCEPT !.queries = q]
  IN Of(SphereHit(object, ray, Range(interval.start, acc.closest + 1)))

HitFoldStep(acc, i, object, ray, interval) ==
  LET q == Append(acc.queries, [index |-> i, end |-> acc.closest])
      Of(h) == IF IsSome(h)
               THEN [closest |-> Unwrap(h).t, hit |-> h, queries |-> q]
               ELSE [acc EXCEPT !.queries = q]
  IN Of(SphereHit(object, ray, Range(interval.start, acc.closest)))

RECURSIVE HitFold(_, _, _, _, _)
HitFold(objects, i, ray, interval, acc) ==
  IF i > Len(objects) THEN acc
  ELSE HitFold(objects, i + 1, ray, interval,
               HitFoldStep(acc, i, objects[i], ray, interval))

\* HittableList::hit, with the queries it made
HittableListHitQ(objects, ray, interval) ==
  HitFold(objects, 1, ray, interval,
          [closest |-> interval.end, hit |-> None, queries |-> <<>>])

HittableListHit(objects, ray, interval) ==
  HittableListHitQ(objects, ray, interval).hit

\* ------------------------------------------------------- random generators
\* The generator words are WordBits wide instead of 64; shift and rotation
\* counts are those of the source reduced modulo the width, and the f64 made
\* from a word is the word taken as a binary fraction.
WordBits == 2 * 4
WordMod == 2^WordBits

RECURSIVE BitXor(_, _, _)
BitXor(a, b, n) ==
  IF n = 0 THEN 0
  ELSE ((a + b) % 2) + 2 * BitXor(a \div 2, b \div 2, n - 1)

Xor(a, b) == BitXor(a, b, WordBits)
WrappingAdd(a, b) == (a + b) % WordMod
Shl(a, k) == (a * 2^(k % WordBits)) % WordMod
RotateLeft(a, k) == Shl(a, k) + (a \div 2^(WordBits - (k % WordBits)))

\* Xoshiro256::next: <<result, state after>>
XoshiroNext(state) ==
  LET result == WrappingAdd(RotateLeft(WrappingAdd(state[1], state[4]), 23), state[1])
      t == Shl(state[2], 17)
      s2 == Xor(state[3], state[1])
      s3 == Xor(state[4], state[2])
      s1 == Xor(state[2], s2)
      s0 == Xor(state[1], s3)
  IN <<result, <<s0, s1, Xor(s2, t), RotateLeft(s3, 45)>>>>

RECURSIVE XoshiroWarmUp(_, _)
XoshiroWarmUp(state, n) ==
  IF n = 0 \/ Len(state) # 4 THEN state ELSE XoshiroWarmUp(XoshiroNext(state)[2], n - 1)

\* DefaultHasher, a keyed hash the model replaces by a multiplicative mix:
\* write(x) folds x into the hasher, finish reads it out
HasherWrite(h, x) == (h * 31 + x + 7) % WordMod
HasherFinish(h) == (h * 167 + 13) % WordMod

\* Xoshiro256::new
XoshiroNew(seed) ==
  LET h0 == HasherWrite(17, seed % WordMod)
      h1 == HasherWrite(h0, 0)
      h2 == HasherWrite(h1, 1)
      h3 == HasherWrite(h2, 2)
      h4 == HasherWrite(h3, 3)
  IN XoshiroWarmUp(<<HasherFinish(h1), HasherFinish(h2), HasherFinish(h3), HasherFinish(h4)>>, 16)

\* Xoshiro256::next_f64: <<value in [0, 1), state after>>
XoshiroNextF64(state) ==
  LET Of(r) == <<(r[1] * One) \div WordMod, r[2]>>
  IN Of(XoshiroNext(state))

\* A thread's random sources, as one step of the thread sees them:
\*   fast    THREAD_RNG of fastrand.rs, Uninit until the thread first draws
\*   rand    the thread-local generator behind rand::thread_rng(), likewise
\*   tid     the thread's id; now, entropy: the wall clock and the OS entropy
\*           a first draw made in this step would seed from
Uninit == <<>>

\* time_seed ^ thread_id of the THREAD_RNG initializer
ThreadSeed(rs) == Xor(rs.now, rs.tid)

\* the THREAD_RNG initializer
ThreadRngInit(rs) == XoshiroNew(ThreadSeed(rs))

\* THREAD_RNG.with(..): the generator, initialized on first use
ThreadRngWith(rs) == IF rs.fast = Uninit THEN ThreadRngInit(rs) ELSE rs.fast

\* rand::thread_rng(): a generator of the rand crate, seeded from the OS on
\* the thread's first use; it is represented by a generator of the same shape
RandThreadRng(rs) == IF rs.rand = Uninit THEN XoshiroNew(rs.entropy) ELSE rs.rand

\* random_f64: [v |-> the draw, rs |-> the sources after]
RandomF64(rs) ==
  LET Of(r) == [v |-> r[1], rs |-> [rs EXCEPT !.fast = r[2]]]
  IN Of(XoshiroNextF64(ThreadRngWith(rs)))

\* random_in_range
RandomInRange(rs, min, max) ==
  LET a == IF min <= max THEN min ELSE max
      b == IF min <= max THEN max ELSE min
      Of(r) == [v |-> a + FMul(r[1], b - a), rs |-> [rs EXCEPT !.fast = r[2]]]
  IN Of(XoshiroNextF64(ThreadRngWith(rs)))

\* rng.gen::<f64>() on rand::thread_rng()
RandGen(rs) ==
  LET Of(r) == [v |-> r[1], rs |-> [rs EXCEPT !.rand = r[2]]]
  IN Of(XoshiroNextF64(RandThreadRng(rs)))

\* rng.gen_range(low..high) on rand::thread_rng()
RandGenRange(rs, low, high) ==
  LET Of(r) == [v |-> low + FMul(r[1], high - low), rs |-> [rs EXCEPT !.rand = r[2]]]
  IN Of(XoshiroNextF64(RandThreadRng(rs)))

\* random_unit_vector.  1e-160 is below the resolution of the model's
\* numbers: a squared length above it is a positive one.
RECURSIVE RandomUnitVector(_)
RandomUnitVector(rs) ==
  LET Test(v, len_sq, after) ==
        IF len_sq > 0 /\ len_sq <= One
        THEN [v |-> VDivS(v, FSqrt(len_sq)), rs |-> after]
        ELSE RandomUnitVector(after)
      WithV(v, after) == Test(v, VLengthSq(v), after)
      WithZ(x, y, z) == WithV(Vec(x.v, y.v, z.v), z.rs)
      WithY(x, y) == WithZ(x, y, RandGenRange(y.rs, -One, One))
      WithX(x) == WithY(x, RandGenRange(x.rs, -One, One))
  IN WithX(RandGenRange(rs, -One, One))

\* ------------------------------------------------------- Material::scatter
\* near_zero.  1e-8 is below the resolution of the model's numbers.
NearZero(v) == Abs(v[1]) < 1 /\ Abs(v[2]) < 1 /\ Abs(v[3]) < 1

Reflect(v, n) == VSub(v, VScale(FMul(2 * One, VDot(v, n)), n))

Refract(uv, n, etai_over_etat) ==
  LET cos_theta == -FMin(VDot(uv, n), One)
      r_out_perp == VScale(etai_over_etat, VAdd(uv, VScale(cos_theta, n)))
      r_out_parallel == VScale(-FSqrt(Abs(One - VLengthSq(r_out_perp))), n)
  IN VAdd(r_out_perp, r_out_parallel)

Powf5(x) == FMul(FMul(FMul(FMul(x, x), x), x), x)

Reflectance(cosine, refraction_index) ==
  LET q == FDiv(One - refraction_index, One + refraction_index)
      r0 == FMul(q, q)
  IN r0 + FMul(One - r0, Powf5(One - cosine))

ScatterLambertian(m, ray, rec, rs) ==
  LET Direction(sum) == IF NearZero(sum) THEN rec.outward_normal ELSE sum
      Of(u) ==
        [res |-> Some(<<m.albedo,
                        Ray(rec.point, Direction(VAdd(rec.outward_normal, u.v)))>>),
         rs |-> u.rs]
  IN Of(RandomUnitVector(rs))

ScatterMetalAlways(m, ray, rec, rs) ==
  LET Of(u) ==
        [res |-> Some(<<m.albedo,
                        Ray(rec.point,
                            VAdd(VNormalize(Reflect(ray.direction, rec.outward_normal)),
                                 VScale(m.fuzz, u.v)))>>),
         rs |-> u.rs]
  IN Of(RandomUnitVector(rs))

ScatterMetal(m, ray, rec, rs) ==
  LET Result(scattered, after) ==
        [res |-> IF VDot(scattered.direction, rec.outward_normal) > 0
                 THEN Some(<<m.albedo, scattered>>)
                 ELSE None,
         rs |-> after]
      Of(u) ==
        Result(Ray(rec.point,
                   VAdd(VNormalize(Reflect(ray.direction, rec.outward_normal)),
                        VScale(m.fuzz, u.v))),
               u.rs)
  IN Of(RandomUnitVector(rs))

\* The draw of the reflect-or-refract test is made only when the ray can
\* refract (the || of the source does not evaluate its right side otherwise);
\* rand::thread_rng() is called in either case.
ScatterDielectric(m, ray, rec, rs) ==
  LET attenuation == Vec(One, One, One)
      ri == IF rec.front_face THEN FDiv(One, m.refractive_index) ELSE m.refractive_index
      Result(direction, after) ==
        [res |-> Some(<<attenuation, Ray(rec.point, direction)>>), rs |-> after]
      Choose(unit_direction, cos_theta, cannot_refract, g) ==
        IF cannot_refract
        THEN Result(Reflect(unit_direction, rec.outward_normal),
                    [rs EXCEPT !.rand = RandThreadRng(rs)])
        ELSE IF Reflectance(cos_theta, ri) > g.v
             THEN Result(Reflect(unit_direction, rec.outward_normal), g.rs)
             ELSE Result(Refract(unit_direction, rec.outward_normal, ri), g.rs)
      WithCos(unit_direction, cos_theta) ==
        Choose(unit_direction, cos_theta,
               FMul(ri, FSqrt(One - FMul(cos_theta, cos_theta))) > One,
               RandGen(rs))
      WithUnit(unit_direction) ==
        WithCos(unit_direction, FMin(-VDot(unit_direction, rec.outward_normal), One))
  IN WithUnit(VNormalize(ray.direction))

\* Material::scatter: [res |-> None or Some(<<attenuation, scattered>>),
\* rs |-> the random sources after]
Scatter(m, ray, rec, rs) ==
  CASE m.kind = "Lambertian" -> ScatterLambertian(m, ray, rec, rs)
    [] m.kind = "Metal" -> ScatterMetal(m, ray, rec, rs)
    [] m.kind = "Dielectric" -> ScatterDielectric(m, ray, rec, rs)

\* ------------------------------------------------------------ Camera::color
LerpSwapped(a, start, end) == VAdd(VScale(One - a, end), VScale(a, start))

\* lerp
Lerp(a, start, end) == VAdd(VScale(One - a, start), VScale(a, end))

\* the background of Camera::color
Background(ray) ==
  LET unit_direction == VNormalize(ray.direction)
      a == FMul(One \div 2, unit_direction[2] + One)
      white == Vec(One, One, One)
      blue == Vec(One \div 2, (7 * One) \div 10, One)
  IN Lerp(a, white, blue)

ColorBudgetBackground(ray, rs) ==
  [v |-> Vec(One, One, One), rs |-> rs, hits |-> 0, scatters |-> 0, end |-> "budget",
   path |-> <<>>, last |-> ray]

\* Camera::color at depth 0
ColorBudgetExhausted(ray, rs) ==
  [v |-> ZERO, rs |-> rs, hits |-> 0, scatters |-> 0, end |-> "budget",
   path |-> <<>>, last |-> ray]

AttenuateDropped(attenuation, rest) ==
  [rest EXCEPT !.hits = rest.hits + 1,
               !.scatters = rest.scatters + 1,
               !.path = <<attenuation>> \o rest.path]

\* attenuation * self.color(&scattered, depth - 1, world)
Attenuate(attenuation, rest) ==
  [rest EXCEPT !.v = VMul(attenuation, rest.v),
               !.hits = rest.hits + 1,
               !.scatters = rest.scatters + 1,
               !.path = <<attenuation>> \o rest.path]

\* Camera::color: [v |-> the colour, rs |-> the random sources after], with
\* what the call did: hits, scatters count the world.hit and scatter calls of
\* the whole recursion, end tells how it ended ("budget": depth 0, "absorbed",
\* "miss": the background), path lists the attenuations of the bounces and
\* last is the ray of the innermost call
RECURSIVE Color(_, _, _, _)
Color(ray, depth, world, rs) ==
  LET OnScatter(sc) ==
        IF IsSome(sc.res)
        THEN Attenuate(Unwrap(sc.res)[1],
                       Color(Unwrap(sc.res)[2], depth - 1, world, sc.rs))
        ELSE [v |-> ZERO, rs |-> sc.rs, hits |-> 1, scatters |-> 1, end |-> "absorbed",
              path |-> <<>>, last |-> ray]
      OnHit(h) ==
        IF IsSome(h)
        THEN OnScatter(Scatter(Unwrap(h).material, ray, Unwrap(h), rs))
        ELSE [v |-> Background(ray), rs |-> rs, hits |-> 1, scatters |-> 0,
              end |-> "miss", path |-> <<>>, last |-> ray]
  IN IF depth = 0
     THEN ColorBudgetExhausted(ray, rs)
     ELSE OnHit(HittableListHit(world, ray, Range(One \div 1000, Inf)))

\* ------------------------------------------------------------------- Camera
MAX_VAL == 255
PI == 3142

\* degrees_to_radians
DegreesToRadians(degrees) == FDiv(FMul(degrees, PI), 180 * One)

\* f64::tan, on the angles the configurations use: 0, 10, 30 and 45 degrees
Tan(x) ==
  CASE x = 0 -> 0
    [] x = 174 -> 176
    [] x = 523 -> 577
    [] x = 785 -> One

\* f64 division and multiplication where a zero divisor makes an infinity
FDivX(x, y) == IF y = 0 THEN (IF x = 0 THEN NaN ELSE Inf) ELSE FDiv(x, y)
FMulX(x, y) ==
  IF x = Inf THEN (IF y = 0 THEN NaN ELSE IF y > 0 THEN Inf ELSE -Inf)
  ELSE FMul(x, y)

\* f64 as u32: toward zero, saturating
AsU32(x) == IF x < 0 THEN 0 ELSE x \div One

\* Camera::initialize
Initialize(image_width, aspect_ratio, samples_per_pixel, max_depth, vertical_fov, look_from, look_at, v_up, defocus_angle, focus_dist) ==
  LET pixel_samples_scale == FDivX(One, samples_per_pixel * One)
      height0 == FDiv(image_width * One, aspect_ratio)
      image_height == IF height0 < One THEN One ELSE height0
      theta == DegreesToRadians(vertical_fov)
      h == Tan(FDiv(theta, 2 * One))
      viewport_height == FMul(FMul(2 * One, h), focus_dist)
      viewport_width == FMul(FDiv(image_width * One, image_height), viewport_height)
      camera_center == look_from
      w == VNormalize(VSub(look_from, look_at))
      u == VCross(v_up, w)
      v == VCross(w, u)
      viewport_u == VScale(viewport_width, u)
      viewport_v == VScale(viewport_height, VNeg(v))
      pixel_delta_u == VDivS(viewport_u, image_width * One)
      pixel_delta_v == VDivS(viewport_v, image_height)
      viewport_upper_left ==
        VSub(VSub(VSub(camera_center, VScale(focus_dist, w)),
                  VDivS(viewport_u, 2 * One)),
             VDivS(viewport_v, 2 * One))
      pixel_00_loc ==
        VAdd(viewport_upper_left, VScale(One \div 2, VAdd(pixel_delta_u, pixel_delta_v)))
      defocus_radius ==
        FMul(focus_dist, Tan(FDiv(DegreesToRadians(defocus_angle), 2 * One)))
  IN [samples_per_pixel |-> samples_per_pixel,
      pixel_samples_scale |-> pixel_samples_scale,
      max_depth |-> max_depth,
      image_width |-> image_width,
      image_height |-> AsU32(image_height),
      camera_center |-> camera_center,
      pixel_delta_u |-> pixel_delta_u,
      pixel_delta_v |-> pixel_delta_v,
      pixel_00_loc |-> pixel_00_loc,
      defocus_angle |-> defocus_angle,
      defocus_disk_u |-> VScale(defocus_radius, u),
      defocus_disk_v |-> VScale(defocus_radius, v)]

\* Camera::sample_square
SampleSquare(rs) ==
  LET WithY(rx, ry) == [v |-> Vec(rx.v - One \div 2, ry.v - One \div 2, 0), rs |-> ry.rs]
      WithX(rx) == WithY(rx, RandomF64(rx.rs))
  IN WithX(RandomF64(rs))

\* random_in_unit_disk
RECURSIVE RandomInUnitDisk(_)
RandomInUnitDisk(rs) ==
  LET Test(p, after) ==
        IF VLengthSq(p) < One THEN [v |-> p, rs |-> after] ELSE RandomInUnitDisk(after)
      WithY(x, y) == Test(Vec(x.v, y.v, 0), y.rs)
      WithX(x) == WithY(x, RandomInRange(x.rs, -One, One))
  IN WithX(RandomInRange(rs, -One, One))

\* Camera::defocus_disk_sample
DefocusDiskSample(cam, rs) ==
  LET Of(p) ==
        [v |-> VAdd(VAdd(cam.camera_center, VScale(p.v[1], cam.defocus_disk_u)),
                    VScale(p.v[2], cam.defocus_disk_v)),
         rs |-> p.rs]
  IN Of(RandomInUnitDisk(rs))

\* Camera::get_ray
GetRay(cam, x, y, rs) ==
  LET pixel_center ==
        VAdd(VAdd(cam.pixel_00_loc, VScale(x * One, cam.pixel_delta_u)),
             VScale(y * One, cam.pixel_delta_v))
      WithOrigin(pixel_center_offset, origin) ==
        [v |-> Ray(origin.v, VSub(pixel_center_offset, origin.v)), rs |-> origin.rs]
      WithSquare(sq) ==
        WithOrigin(VAdd(pixel_center, sq.v),
                   IF cam.defocus_angle <= 0
                   THEN [v |-> cam.camera_center, rs |-> sq.rs]
                   ELSE DefocusDiskSample(cam, sq.rs))
  IN WithSquare(SampleSquare(rs))

\* The samples of one pixel, lines 230-235 of render: the sequence of the
\* samples taken so far (the ray, the colour and what color did), the random
\* sources threaded through them.
RECURSIVE PixelSamples(_, _, _, _, _, _, _)
PixelSamples(cam, world, x, y, n, acc, rs) ==
  LET WithColor(ray, c) ==
        PixelSamples(cam, world, x, y, n - 1,
                     Append(acc, [ray |-> ray, v |-> c.v, hits |-> c.hits,
                                  scatters |-> c.scatters, end |-> c.end,
                                  path |-> c.path, last |-> c.last]),
                     c.rs)
      WithRay(ray) == WithColor(ray.v, Color(ray.v, cam.max_depth, world, ray.rs))
  IN IF n = 0 THEN [samples |-> acc, rs |-> rs]
     ELSE WithRay(GetRay(cam, x, y, rs))

\* Iterator::sum over DVec3
RECURSIVE VSum(_, _)
VSum(samples, n) == IF n = 0 THEN ZERO ELSE VAdd(VSum(samples, n - 1), samples[n].v)

\* self.pixel_samples_scale * pixel_color
ScalePixel(scale, pixel_color) ==
  Vec(FMulX(scale, pixel_color[1]), FMulX(scale, pixel_color[2]), FMulX(scale, pixel_color[3]))

\* The pixel of lines 230-237: the samples summed and scaled.  Beside the
\* colour, the pixel keeps where it belongs, which thread made it and the
\* samples it was made from.
PixelOf(self, x, y, w, samples) ==
  [x |-> x, y |-> y, by |-> w, samples |-> samples,
   color |-> ScalePixel(self.pixel_samples_scale, VSum(samples, Len(samples)))]

\* Camera::linear_to_gamma
LinearToGamma(linear_component) ==
  IF linear_component # NaN /\ linear_component > 0
  THEN (IF linear_component = Inf THEN Inf ELSE FSqrt(linear_component))
  ELSE 0

\* f64::clamp
Clamp(x, lo, hi) == IF x < lo THEN lo ELSE IF x > hi THEN hi ELSE x

\* f64 as u8: toward zero, saturating
AsU8(x) == IF x < 0 THEN 0 ELSE IF x \div One > 255 THEN 255 ELSE x \div One

\* Camera::write_color: the line written for a pixel
ColorLine(pixel_color) ==
  LET ch(c) == AsU8(Clamp(LinearToGamma(c), 0, (999 * One) \div 1000) * MAX_VAL)
  IN <<ch(pixel_color[1]), ch(pixel_color[2]), ch(pixel_color[3])>>

\* materials of the scenes used below
GreyDiffuse == Lambertian(Vec(One \div 2, One \div 2, One \div 2))
Mirror == Metal(Vec(One, One, One), 0)

\* =================================================================== render
renderVars == <<camera, scene, pc, out, bar, rows, wk, done_order, pixels>>
queryVars == <<query, answer, phase>>
buildVars == <<builder, built, calls>>

Workers == 1..NumWorkers
Idle == -1

\* the thread id of a pool thread (ThreadId::as_u64)
ThreadId(w) == w

\* no render in progress
RenderIdle ==
  /\ camera = Initialize(1, One, 0, 0, 90 * One, ZERO, Vec(0, 0, -One), Vec(0, One, 0), 0, One)
  /\ scene = <<>>
  /\ pc = "idle"
  /\ out = <<>>
  /\ bar = 0
  /\ rows = <<>>
  /\ wk = <<>>
  /\ done_order = <<>>
  /\ pixels = <<>>

\* no intersection query in progress
QueryIdle ==
  /\ query = [ray |-> Ray(ZERO, Vec(0, 0, -One)), objects |-> <<>>,
              interval |-> Range(One \div 1000, Inf)]
  /\ answer = [hit |-> None, queries |-> <<>>]
  /\ phase = "idle"

\* CameraBuilder::new
CameraBuilderNew ==
  [aspect_ratio |-> None, image_width |-> None, samples_per_pixel |-> None,
   max_depth |-> None, vertical_fov |-> None, look_from |-> None, look_at |-> None,
   v_up |-> None, defocus_angle |-> None, focus_dist |-> None]

\* no builder in use
BuildIdle ==
  /\ builder = CameraBuilderNew
  /\ built = None
  /\ calls = [setters |-> <<>>, initialize |-> 0]

\* The cameras: CameraBuilder::build over these settings, the others at the
\* builder's defaults but for focus_dist.
ImageWidths == {1, 2}
AspectRatios == {2 * One, One}
SamplesPerPixel == {0, 1, 2}
MaxDepths == {0, 1, 2}
DefocusAngles == {0, 90 * One}
Cameras ==
  { Initialize(iw, ar, spp, md, 90 * One, ZERO, Vec(0, 0, -One), Vec(0, One, 0), da, One) :
      iw \in ImageWidths, ar \in AspectRatios, spp \in SamplesPerPixel,
      md \in MaxDepths, da \in DefocusAngles }

\* The scenes: none, one diffuse sphere, a fuzzy metal ground under a glass
\* sphere.
Worlds ==
  { <<>>,
    <<Sphere(Vec(0, 0, -3 * One), 2 * One, GreyDiffuse)>>,
    <<Sphere(Vec(0, -2 * One, -2 * One), 2 * One, Metal(Vec(One, One, One), One \div 2)),
      Sphere(Vec(0, One, -2 * One), One, Dielectric((3 * One) \div 2))>> }

\* the wall clock read by a THREAD_RNG initializer, the seed the OS gives
TimeValues == {1, 2}
Entropy == {0, 1}

Init ==
  /\ camera \in Cameras
  /\ scene \in Worlds
  /\ pc = "create"
  /\ out = <<>>
  /\ bar = 0
  /\ rows = [y \in 0..(camera.image_height - 1) |->
               [st |-> "todo", pixels |-> <<>>, made |-> 0]]
  /\ wk = [w \in Workers |-> [row |-> Idle, buf |-> <<>>, fast |-> Uninit, rand |-> Uninit,
                               seed |-> None, os_seed |-> None]]
  /\ done_order = <<>>
  /\ pixels = <<>>
  /\ QueryIdle
  /\ BuildIdle

\* File::create(file_path)?
CreateFile ==
  /\ pc = "create"
  /\ pc' \in {"header", "err"}
  /\ UNCHANGED <<camera, scene, out, bar, rows, wk, done_order, pixels>>
  /\ UNCHANGED queryVars
  /\ UNCHANGED buildVars

PpmHeaderSwapped(self) ==
  << [kind |-> "magic", text |-> "P3"],
     [kind |-> "size", width |-> self.image_height, height |-> self.image_width],
     [kind |-> "maxval", value |-> MAX_VAL] >>

\* Camera::write_ppm_header: the lines it writes
PpmHeader(self) ==
  << [kind |-> "magic", text |-> "P3"],
     [kind |-> "size", width |-> self.image_width, height |-> self.image_height],
     [kind |-> "maxval", value |-> MAX_VAL] >>

\* self.write_ppm_header(&mut buf_writer)?, then the progress bar is made
WriteHeader ==
  /\ pc = "header"
  /\ \/ /\ out' = PpmHeader(camera)
        /\ pc' = "compute"
     \/ /\ \E n \in 0..2 : out' = SubSeq(PpmHeader(camera), 1, n)
        /\ pc' = "err"
  /\ UNCHANGED <<camera, scene, bar, rows, wk, done_order, pixels>>
  /\ UNCHANGED queryVars
  /\ UNCHANGED buildVars

\* into_par_iter on the range of rows: the pool splits the range into
\* contiguous pieces, and a piece is gone through front to back, one row
\* at a time
PieceLen(height) == (height + MaxPieces - 1) \div MaxPieces

\* the rows of piece k: PieceFirst(k, height) .. PieceEnd(k, height) - 1
PieceFirst(k, height) == k * PieceLen(height)
PieceEnd(k, height) ==
  IF (k + 1) * PieceLen(height) < height THEN (k + 1) * PieceLen(height) ELSE height

TakeableAgain(r, height) == { y \in DOMAIN r : r[y].st # "done" }

\* the first row of lo..hi-1 not given to a thread yet, -1 if there is none
RECURSIVE FirstTodo(_, _, _)
FirstTodo(r, lo, hi) ==
  IF lo >= hi THEN -1
  ELSE IF r[lo].st = "todo" THEN lo ELSE FirstTodo(r, lo + 1, hi)

\* the rows a thread may be given next: of each piece, the first row not
\* given yet, once the row before it is finished
Takeable(r, height) ==
  UNION { { y \in { FirstTodo(r, PieceFirst(k, height), PieceEnd(k, height)) } :
              /\ y >= 0
              /\ y = PieceFirst(k, height) \/ r[y - 1].st = "done" } :
          k \in 0..(MaxPieces - 1) }

\* a pool thread takes a row of the parallel iterator
TakeRow(w) ==
  /\ pc = "compute"
  /\ wk[w].row = Idle
  /\ \E y \in Takeable(rows, camera.image_height) :
       /\ rows' = [rows EXCEPT ![y].st = "run"]
       /\ wk' = [wk EXCEPT ![w].row = y, ![w].buf = <<>>]
  /\ UNCHANGED <<camera, scene, pc, out, bar, done_order, pixels>>
  /\ UNCHANGED queryVars
  /\ UNCHANGED buildVars

\* a generator in one place for the whole process
ProcessWide(w) == 1

\* Where the generators a thread draws from live: THREAD_RNG is a
\* thread_local!, and rand::thread_rng() hands out the calling thread's own
\* generator, so thread w reaches slot w and no other.
ThreadLocal(w) == w

\* the closure of lines 229-238 for the next x of the worker's row.  The
\* clock and the OS entropy are read only by a generator's first use.
ComputePixel(w) ==
  /\ pc = "compute"
  /\ wk[w].row # Idle
  /\ Len(wk[w].buf) < camera.image_width
  /\ \E slot \in {ThreadLocal(w)} :
       \E now \in IF wk[slot].fast = Uninit THEN TimeValues ELSE {0},
          entropy \in IF wk[slot].rand = Uninit THEN Entropy ELSE {0} :
         \E rs \in { [fast |-> wk[slot].fast, rand |-> wk[slot].rand,
                       tid |-> ThreadId(w), now |-> now, entropy |-> entropy] } :
           \E p \in { PixelSamples(camera, scene, Len(wk[w].buf), wk[w].row,
                                    camera.samples_per_pixel, <<>>, rs) } :
             wk' = [wk EXCEPT ![w].buf = Append(@, PixelOf(camera, Len(wk[w].buf),
                                                           wk[w].row, w, p.samples)),
                              ![slot].fast = p.rs.fast,
                              ![slot].rand = p.rs.rand,
                              ![slot].seed = IF rs.fast = Uninit /\ p.rs.fast # Uninit
                                             THEN Some(ThreadSeed(rs)) ELSE @,
                              ![slot].os_seed = IF rs.rand = Uninit /\ p.rs.rand # Uninit
                                                THEN Some(rs.entropy) ELSE @]
  /\ rows' = [rows EXCEPT ![wk[w].row].made = @ + 1]
  /\ UNCHANGED <<camera, scene, pc, out, bar, done_order, pixels>>
  /\ UNCHANGED queryVars
  /\ UNCHANGED buildVars

BarIncEveryRow(position, i, image_width) == position + image_width

\* lines 240-242: the bar after the closure of row i
BarInc(position, i, image_width) ==
  IF i % 100 = 0 THEN position + 100 * image_width ELSE position

\* the end of the row closure, lines 239-243: i is the row index
FinishRow(w) ==
  /\ pc = "compute"
  /\ wk[w].row # Idle
  /\ Len(wk[w].buf) = camera.image_width
  /\ LET i == wk[w].row
     IN /\ bar' = BarInc(bar, i, camera.image_width)
        /\ rows' = [rows EXCEPT ![i].st = "done", ![i].pixels = wk[w].buf]
        /\ done_order' = Append(done_order, i)
  /\ wk' = [wk EXCEPT ![w].row = Idle, ![w].buf = <<>>]
  /\ UNCHANGED <<camera, scene, pc, out, pixels>>
  /\ UNCHANGED queryVars
  /\ UNCHANGED buildVars

RECURSIVE CollectByCompletion(_, _)
CollectByCompletion(r, n) ==
  IF n = 0 THEN <<>>
  ELSE CollectByCompletion(r, n - 1) \o r[done_order[n]].pixels

\* flat_map(..).collect() of the parallel iterator: the rows' pixels, in the
\* order of the row indices
RECURSIVE CollectRows(_, _)
CollectRows(r, n) ==
  IF n = 0 THEN <<>> ELSE CollectRows(r, n - 1) \o r[n - 1].pixels

SomeRowDone(r) == \E y \in DOMAIN r : r[y].st = "done"

\* collect() returns when the closure has returned for every row
AllRowsDone(r) == \A y \in DOMAIN r : r[y].st = "done"

\* the parallel iterator ends when every row is done
Collect ==
  /\ pc = "compute"
  /\ AllRowsDone(rows)
  /\ pixels' = CollectRows(rows, camera.image_height)
  /\ pc' = "write"
  /\ UNCHANGED <<camera, scene, out, bar, rows, wk, done_order>>
  /\ UNCHANGED queryVars
  /\ UNCHANGED buildVars

\* the pixel lines written so far
Written == IF Len(out) <= 3 THEN 0 ELSE Len(out) - 3

\* one turn of the for_each of lines 265-268: write_color(..).expect(..)
WritePixel ==
  /\ pc = "write"
  /\ Written < Len(pixels)
  /\ LET p == pixels[Written + 1]
     IN \/ /\ out' = Append(out, [kind |-> "pixel", rgb |-> ColorLine(p.color),
                                  x |-> p.x, y |-> p.y])
           /\ pc' = "write"
        \/ /\ out' = out
           /\ pc' = "panic"
  /\ UNCHANGED <<camera, scene, bar, rows, wk, done_order, pixels>>
  /\ UNCHANGED queryVars
  /\ UNCHANGED buildVars

\* buf_writer.flush()?, then Ok(())
Flush ==
  /\ pc = "write"
  /\ Written = Len(pixels)
  /\ pc' \in {"done", "err"}
  /\ UNCHANGED <<camera, scene, out, bar, rows, wk, done_order, pixels>>
  /\ UNCHANGED queryVars
  /\ UNCHANGED buildVars

Next ==
  \/ CreateFile
  \/ WriteHeader
  \/ \E w \in Workers : TakeRow(w) \/ ComputePixel(w) \/ FinishRow(w)
  \/ Collect
  \/ WritePixel
  \/ Flush

\* ======================================================= intersection queries
\* The inputs of the intersection queries: rays (directions deliberately not
\* of unit length), spheres in front of, around and beside the ray origin,
\* and intervals whose ends fall on roots and between them.

QRays ==
  { Ray(ZERO, d) : d \in { Vec(0, 0, -One), Vec(0, 0, -2 * One), Vec(0, One, -One) } }
QSpheres ==
  { Sphere(c, r, m) : c \in { Vec(0, 0, -3 * One), Vec(0, 0, -One) },
                      r \in { One, 2 * One },
                      m \in { GreyDiffuse, Mirror } }
QIntervals ==
  { Range(s, e) : s \in { One \div 1000, 2 * One }, e \in { 2 * One, 4 * One, Inf } }
QLists == UNION { [1..n -> QSpheres] : n \in 0..MaxObjects }

QInit ==
  /\ query \in [ray : QRays, objects : QLists, interval : QIntervals]
  /\ answer = [hit |-> None, queries |-> <<>>]
  /\ phase = "start"
  /\ RenderIdle
  /\ BuildIdle

\* world.hit(ray, interval)
QueryList ==
  /\ phase = "start"
  /\ answer' = HittableListHitQ(query.objects, query.ray, query.interval)
  /\ phase' = "list"
  /\ UNCHANGED query
  /\ UNCHANGED renderVars
  /\ UNCHANGED buildVars

\* objects[0].hit(ray, interval)
QuerySphere ==
  /\ phase = "start"
  /\ Len(query.objects) >= 1
  /\ answer' = [hit |-> SphereHit(query.objects[1], query.ray, query.interval),
                queries |-> <<>>]
  /\ phase' = "sphere"
  /\ UNCHANGED query
  /\ UNCHANGED renderVars
  /\ UNCHANGED buildVars

\* the materials scatter is asked of, and the seeds of the thread's generator
QMaterials ==
  { GreyDiffuse, Mirror, Metal(Vec(One, One, One), One),
    Metal(Vec(One \div 2, One \div 2, One \div 2), (3 * One) \div 10),
    Dielectric((3 * One) \div 2) }
QSeeds == 0..3

\* material.scatter(&ray, &hit_record), the record that of the one object of
\* the query.  The answer keeps the unit vector a scatter of this thread
\* draws first.
QueryScatter ==
  /\ phase = "start"
  /\ Len(query.objects) = 1
  /\ \E h \in { SphereHit(query.objects[1], query.ray, query.interval) } :
       /\ IsSome(h)
       /\ \E m \in QMaterials, seed \in QSeeds :
            \E rs \in { [fast |-> Uninit, rand |-> Uninit, tid |-> ThreadId(1),
                          now |-> 0, entropy |-> seed] } :
              answer' = [hit |-> h, queries |-> <<>>, material |-> m,
                         unit_vector |-> RandomUnitVector(rs).v,
                         scatter |-> Scatter(m, query.ray, Unwrap(h), rs).res]
  /\ phase' = "scatter"
  /\ UNCHANGED query
  /\ UNCHANGED renderVars
  /\ UNCHANGED buildVars

vars == <<builder, built, calls, query, answer, phase, camera, scene, pc, out, bar, rows, wk, done_order, pixels>>

QNext == QueryList \/ QuerySphere \/ QueryScatter

SpecHit == QInit /\ [][QNext]_vars

Spec == Init /\ [][Next]_vars

\* ============================================================ rows of render
\* The row loop of render on images of more than a hundred rows, a row
\* closure taken as one step and the values of its pixels left out: what the
\* progress bar shows depends on the row indices and the width only.
RowCameras ==
  { Initialize(s[1], s[2], 0, 0, 90 * One, ZERO, Vec(0, 0, -One), Vec(0, One, 0), 0, One) :
      s \in { <<1, 9>>, <<2, 20>> } }

\* render has written the header and made the bar
PInit ==
  /\ camera \in RowCameras
  /\ scene = <<>>
  /\ pc = "compute"
  /\ out = PpmHeader(camera)
  /\ bar = 0
  /\ rows = [y \in 0..(camera.image_height - 1) |->
               [st |-> "todo", pixels |-> <<>>, made |-> 0]]
  /\ wk = [w \in Workers |-> [row |-> Idle, buf |-> <<>>, fast |-> Uninit, rand |-> Uninit,
                               seed |-> None, os_seed |-> None]]
  /\ done_order = <<>>
  /\ pixels = <<>>
  /\ QueryIdle
  /\ BuildIdle

\* the row closure of lines 228-244 run on the worker's row
RowClosure(w) ==
  /\ pc = "compute"
  /\ wk[w].row # Idle
  /\ bar' = BarInc(bar, wk[w].row, camera.image_width)
  /\ rows' = [rows EXCEPT ![wk[w].row].st = "done",
                          ![wk[w].row].made = camera.image_width]
  /\ wk' = [wk EXCEPT ![w].row = Idle]
  /\ UNCHANGED <<camera, scene, pc, out, done_order, pixels>>
  /\ UNCHANGED queryVars
  /\ UNCHANGED buildVars

PNext == \E w \in Workers : TakeRow(w) \/ RowClosure(w)

SpecRows == PInit /\ [][PNext]_vars

\* ============================================================ CameraBuilder
UnwrapOrDefault(o, default) == default

\* Option::unwrap_or
UnwrapOr(o, default) == IF IsSome(o) THEN Unwrap(o) ELSE default

\* CameraBuilder::build: the fields resolved, then Camera::initialize
CameraBuilderBuild(self) ==
  Initialize(UnwrapOr(self.image_width, 400),
             UnwrapOr(self.aspect_ratio, FDiv(16 * One, 9 * One)),
             UnwrapOr(self.samples_per_pixel, 100),
             UnwrapOr(self.max_depth, 50),
             UnwrapOr(self.vertical_fov, 90 * One),
             UnwrapOr(self.look_from, ZERO),
             UnwrapOr(self.look_at, Vec(0, 0, -One)),
             UnwrapOr(self.v_up, Vec(0, One, 0)),
             UnwrapOr(self.defocus_angle, 0),
             UnwrapOr(self.focus_dist, 100 * One))

BInit ==
  /\ BuildIdle
  /\ RenderIdle
  /\ QueryIdle

\* a setter of the builder: self.field = Some(value); self
BuilderSet(field, value) ==
  /\ built = None
  /\ Len(calls.setters) < MaxSets
  /\ builder' = [builder EXCEPT ![field] = Some(value)]
  /\ calls' = [calls EXCEPT !.setters = Append(@, <<field, value>>)]
  /\ built' = built
  /\ UNCHANGED renderVars
  /\ UNCHANGED queryVars

SetAspectRatio == \E v \in {One} : BuilderSet("aspect_ratio", v)
SetImageWidth == \E v \in {1, 2} : BuilderSet("image_width", v)
SetSamplesPerPixel == \E v \in {1, 2} : BuilderSet("samples_per_pixel", v)
SetMaxDepth == \E v \in {1} : BuilderSet("max_depth", v)
SetVerticalFov == \E v \in {60 * One} : BuilderSet("vertical_fov", v)
SetLookFrom == \E v \in {Vec(0, 0, One)} : BuilderSet("look_from", v)
SetLookAt == \E v \in {Vec(0, 0, -2 * One)} : BuilderSet("look_at", v)
SetVUp == \E v \in {Vec(One, 0, 0)} : BuilderSet("v_up", v)
SetDefocusAngle == \E v \in {20 * One} : BuilderSet("defocus_angle", v)
SetFocusDist == \E v \in {One} : BuilderSet("focus_dist", v)

\* build(self): the builder is consumed
Build ==
  /\ built = None
  /\ built' = Some(CameraBuilderBuild(builder))
  /\ calls' = [calls EXCEPT !.initialize = @ + 1]
  /\ builder' = builder
  /\ UNCHANGED renderVars
  /\ UNCHANGED queryVars

BNext ==
  \/ SetAspectRatio
  \/ SetImageWidth
  \/ SetSamplesPerPixel
  \/ SetMaxDepth
  \/ SetVerticalFov
  \/ SetLookFrom
  \/ SetLookAt
  \/ SetVUp
  \/ SetDefocusAngle
  \/ SetFocusDist
  \/ Build

SpecBuild == BInit /\ [][BNext]_vars

\* ------------------------------------------------ claims on the intersection
SetMin(S) == CHOOSE m \in S : \A x \in S : m <= x

\* the t of every object of the query that has a hit in the whole interval,
\* among the objects at the indices I
HitTs(I) ==
  { Unwrap(SphereHit(query.objects[i], query.ray, query.interval)).t :
      i \in { j \in I : IsSome(SphereHit(query.objects[j], query.ray, query.interval)) } }

Reverse(seq) == [i \in 1..Len(seq) |-> seq[Len(seq) + 1 - i]]

\* C5: HittableList::hit returns the hit of smallest t among the objects that
\* have a hit in the interval, None iff none has, the same t for the list in
\* the opposite order; it queries every object exactly once, in list order,
\* each up to the closest t found before it.
C5_NearestHit ==
  phase = "list" =>
    LET n == Len(query.objects)
        ts == HitTs(1..n)
    IN /\ (answer.hit = None) <=> (ts = {})
       /\ ts # {} => Unwrap(answer.hit).t = SetMin(ts)
       /\ LET back == HittableListHit(Reverse(query.objects), query.ray, query.interval)
          IN /\ (back = None) <=> (answer.hit = None)
             /\ back # None => Unwrap(back).t = Unwrap(answer.hit).t
       /\ Len(answer.queries) = n
       /\ \A i \in 1..n :
            /\ answer.queries[i].index = i
            /\ answer.queries[i].end = SetMin(HitTs(1..(i - 1)) \cup {query.interval.end})

C5_Witness ==
  /\ phase = "list"
  /\ Len(query.objects) = 2
  /\ Cardinality(HitTs({1, 2})) = 2
  /\ HitTs({2}) # {}
  /\ HitTs({1}) # {}
  /\ SetMin(HitTs({2})) > SetMin(HitTs({1}))
  /\ Unwrap(answer.hit).t = SetMin(HitTs({1}))
  /\ answer.queries[2].end = SetMin(HitTs({1}))

\* C6: when several objects are hit at the same smallest t, the record
\* returned is that of the first of them in the list.
C6_TieKeepsFirst ==
  (phase = "list" /\ answer.hit # None) =>
    LET n == Len(query.objects)
        best == SetMin(HitTs(1..n))
        first == SetMin({ i \in 1..n : HitTs({i}) = {best} })
    IN answer.hit = SphereHit(query.objects[first], query.ray, query.interval)

C6_Witness ==
  /\ phase = "list"
  /\ Len(query.objects) = 2
  /\ HitTs({1}) # {}
  /\ HitTs({1}) = HitTs({2})
  /\ query.objects[1].material # query.objects[2].material
  /\ Unwrap(answer.hit).material = query.objects[1].material

\* C7 as claimed: an accepted hit lies strictly inside the interval.
C7_StrictBothEnds ==
  (phase = "sphere" /\ answer.hit # None) =>
    /\ query.interval.start < Unwrap(answer.hit).t
    /\ Unwrap(answer.hit).t < query.interval.end

\* C7 as amended: Sphere::hit rejects a root equal to the upper end of the
\* interval and accepts a root equal to its lower end: an accepted hit has
\* t_min <= t < t_max.
C7_HalfOpen ==
  phase = "sphere" =>
    LET s == query.objects[1]
        near == SphereRootNear(s, query.ray)
        far == SphereRootFar(s, query.ray)
        lo == query.interval.start
        hi == query.interval.end
    IN /\ answer.hit # None =>
            /\ lo <= Unwrap(answer.hit).t
            /\ Unwrap(answer.hit).t < hi
       /\ SphereDisc(s, query.ray) >= 0 =>
            /\ (near = lo /\ lo < hi) => (answer.hit # None /\ Unwrap(answer.hit).t = lo)
            /\ (far = lo /\ near < lo /\ lo < hi) =>
                 (answer.hit # None /\ Unwrap(answer.hit).t = lo)
            /\ \A r \in {near, far} :
                 r = hi => (answer.hit = None \/ Unwrap(answer.hit).t # r)

C7_Witness ==
  /\ phase = "sphere"
  /\ answer.hit # None
  /\ Unwrap(answer.hit).t = query.interval.start
  /\ SphereRootNear(query.objects[1], query.ray) = query.interval.start

\* C8: Sphere::hit returns None on a negative discriminant; otherwise the hit
\* at the smaller root when the interval contains it, else at the larger root
\* when the interval contains that, else None: the nearest root the interval
\* contains, at the point ray.at(t).
C8_NearestRoot ==
  phase = "sphere" =>
    LET s == query.objects[1]
        lo == query.interval.start
        hi == query.interval.end
        roots == IF SphereDisc(s, query.ray) < 0 THEN {}
                 ELSE {SphereRootNear(s, query.ray), SphereRootFar(s, query.ray)}
        inside == { r \in roots : lo <= r /\ r < hi }
    IN /\ (answer.hit = None) <=> (inside = {})
       /\ inside # {} =>
            /\ Unwrap(answer.hit).t = SetMin(inside)
            /\ Unwrap(answer.hit).point = RayAt(query.ray, SetMin(inside))
            /\ Unwrap(answer.hit).material = s.material
       /\ roots # {} => SphereRootNear(s, query.ray) <= SphereRootFar(s, query.ray)

C8_Witness ==
  /\ phase = "sphere"
  /\ SphereDisc(query.objects[1], query.ray) > 0
  /\ SphereRootNear(query.objects[1], query.ray) < query.interval.start
  /\ answer.hit # None
  /\ Unwrap(answer.hit).t = SphereRootFar(query.objects[1], query.ray)

\* C9: the normal stored in a hit record never points along the ray,
\* front_face tells whether the geometric outward normal already pointed
\* against it, and the stored normal is the outward normal or its negation
\* accordingly.
C9_NormalAgainstRay ==
  (phase = "sphere" /\ answer.hit # None) =>
    LET rec == Unwrap(answer.hit)
        s == query.objects[1]
        outward == VDivS(VSub(rec.point, s.center), s.radius)
    IN /\ VDot(query.ray.direction, rec.outward_normal) <= 0
       /\ rec.front_face <=> (VDot(query.ray.direction, outward) <= 0)
       /\ rec.outward_normal = IF rec.front_face THEN outward ELSE VNeg(outward)

C9_Witness ==
  /\ phase = "sphere"
  /\ answer.hit # None
  /\ ~Unwrap(answer.hit).front_face
  /\ VDot(query.ray.direction, Unwrap(answer.hit).outward_normal) < 0

\* ---------------------------------------------------- claims on the render
\* every pixel made so far: in the workers' rows, the finished rows and the
\* collected vector
AllPixels ==
  UNION { { wk[w].buf[k] : k \in 1..Len(wk[w].buf) } : w \in Workers }
  \cup UNION { { rows[y].pixels[k] : k \in 1..Len(rows[y].pixels) } : y \in DOMAIN rows }
  \cup { pixels[k] : k \in 1..Len(pixels) }

\* the pixel lines of the output
PixelLines == { k \in 1..Len(out) : out[k].kind = "pixel" }

\* C1: whatever the order in which the workers take and finish the rows, the
\* k-th pixel line written (k from 0) is the pixel of row k div image_width
\* and column k mod image_width.
C1_RasterOrder ==
  /\ \A k \in 0..(Written - 1) :
       /\ out[3 + k + 1].kind = "pixel"
       /\ out[3 + k + 1].y = k \div camera.image_width
       /\ out[3 + k + 1].x = k % camera.image_width
  /\ \A k \in 0..(Len(pixels) - 1) :
       /\ pixels[k + 1].y = k \div camera.image_width
       /\ pixels[k + 1].x = k % camera.image_width

\* C1 witness: a two-row image whose second row was finished before its
\* first, by two different workers, written out to the end.
C1_Witness ==
  /\ pc = "done"
  /\ camera.image_width = 2 /\ camera.image_height = 2
  /\ done_order = <<1, 0>>
  /\ rows[0].pixels[1].by # rows[1].pixels[1].by
  /\ Written = 4

\* C2: a render that returns Ok has written the three header lines "P3",
\* "<image_width> <image_height>", "255" and after them image_width *
\* image_height pixel lines of three integers in 0..255; the height of the
\* header is the number of rows rendered.
C2_OutputShape ==
  pc = "done" =>
    /\ Len(out) = 3 + camera.image_width * camera.image_height
    /\ out[1] = [kind |-> "magic", text |-> "P3"]
    /\ out[2] = [kind |-> "size", width |-> camera.image_width,
                 height |-> camera.image_height]
    /\ out[3] = [kind |-> "maxval", value |-> 255]
    /\ \A k \in 4..Len(out) :
         /\ out[k].kind = "pixel"
         /\ Len(out[k].rgb) = 3
         /\ \A c \in 1..3 : out[k].rgb[c] \in 0..255
    /\ out[2].height = Len(done_order)
    /\ out[2].height = Cardinality({ out[k].y : k \in 4..Len(out) })
    /\ \A y \in DOMAIN rows : Len(rows[y].pixels) = out[2].width

\* C2 witness: a finished render of an image wider than high, with a pixel
\* that is not black.
C2_Witness ==
  /\ pc = "done"
  /\ camera.image_width = 2 /\ camera.image_height = 1
  /\ \E k \in 4..Len(out) : out[k].rgb[1] > 0

\* C3: with max_depth = 0 every pixel is black, whatever the scene and the
\* draws: each call of color returns black at once, having queried neither
\* the scene nor a material.
C3_DepthZeroBlack ==
  camera.max_depth = 0 =>
    /\ \A p \in AllPixels :
         /\ ColorLine(p.color) = <<0, 0, 0>>
         /\ \A k \in 1..Len(p.samples) :
              /\ p.samples[k].v = <<0, 0, 0>>
              /\ p.samples[k].end = "budget"
              /\ p.samples[k].hits = 0
              /\ p.samples[k].scatters = 0
    /\ \A k \in PixelLines : out[k].rgb = <<0, 0, 0>>

\* C3 witness: a finished render with max_depth = 0 of a scene that has
\* spheres in view, two samples a pixel.
C3_Witness ==
  /\ pc = "done"
  /\ camera.max_depth = 0
  /\ camera.samples_per_pixel = 2
  /\ Len(scene) = 2
  /\ Written = 4
  /\ \A p \in AllPixels : Len(p.samples) = 2

\* the sky gradient of a ray, written out per channel:
\* (1 - a) * white + a * blue with a = 0.5 * (unit_direction.y + 1)
SkyGradient(ray) ==
  LET a == ((One \div 2) * (VNormalize(ray.direction)[2] + One)) \div One
  IN << ((One - a) * One) \div One + (a * (One \div 2)) \div One,
        ((One - a) * One) \div One + (a * ((7 * One) \div 10)) \div One,
        ((One - a) * One) \div One + (a * One) \div One >>

RECURSIVE SkySum(_, _)
SkySum(samples, n) ==
  IF n = 0 THEN <<0, 0, 0>>
  ELSE LET r == SkySum(samples, n - 1)
           g == SkyGradient(samples[n].ray)
       IN <<r[1] + g[1], r[2] + g[2], r[3] + g[3]>>

\* C4 as stated: in a scene with no primitives every sample of every pixel
\* takes the miss path of color and is the sky gradient of its ray, and no
\* material is asked to scatter.
C4_EmptySceneAlwaysMiss ==
  scene = <<>> =>
    \A p \in AllPixels :
      \A k \in 1..Len(p.samples) :
        /\ p.samples[k].end = "miss"
        /\ p.samples[k].scatters = 0
        /\ p.samples[k].v = SkyGradient(p.samples[k].ray)

\* C4: in a scene with no primitives HittableList::hit finds nothing, and
\* when max_depth is at least 1 every sample of every pixel takes the miss
\* path of color, is the sky gradient of its own ray, and no material is
\* asked to scatter; with at least one sample a pixel, the pixel is the mean
\* of its samples' gradients.
C4_EmptySceneMissWithBudget ==
  (scene = <<>> /\ camera.max_depth >= 1) =>
    \A p \in AllPixels :
      /\ \A k \in 1..Len(p.samples) :
           /\ HittableListHit(scene, p.samples[k].ray, Range(One \div 1000, Inf)) = None
           /\ p.samples[k].end = "miss"
           /\ p.samples[k].hits = 1
           /\ p.samples[k].scatters = 0
           /\ p.samples[k].v = SkyGradient(p.samples[k].ray)
      /\ Len(p.samples) = camera.samples_per_pixel
      /\ camera.samples_per_pixel >= 1 =>
           \A c \in 1..3 :
             p.color[c] = (camera.pixel_samples_scale
                             * SkySum(p.samples, Len(p.samples))[c]) \div One

\* C4 witness: a finished render of the empty scene with a bounce budget and
\* two samples a pixel, whose samples differ (the jitter moved the ray).
C4_Witness ==
  /\ pc = "done"
  /\ scene = <<>>
  /\ camera.max_depth >= 1
  /\ camera.samples_per_pixel = 2
  /\ \E p \in AllPixels :
       /\ Len(p.samples) = 2
       /\ p.samples[1].v # p.samples[2].v
       /\ p.samples[1].end = "miss"

\* C10: the generators a worker's draws read and advance are its own: a step
\* changes the generator state of a worker only when that worker itself
\* computes a pixel in the step, and no step changes the generators of two
\* workers.
C10_OwnGeneratorsOnly ==
  [][ /\ \A w \in Workers :
           (wk'[w].fast # wk[w].fast \/ wk'[w].rand # wk[w].rand) =>
             /\ wk[w].row # Idle
             /\ Len(wk'[w].buf) = Len(wk[w].buf) + 1
             /\ wk'[w].buf[Len(wk'[w].buf)].by = w
      /\ \A v, w \in Workers :
           ( /\ (wk'[v].fast # wk[v].fast \/ wk'[v].rand # wk[v].rand)
             /\ (wk'[w].fast # wk[w].fast \/ wk'[w].rand # wk[w].rand) ) => v = w
    ]_vars

\* C10 witness: two workers in the middle of their rows at once, each having
\* drawn from both of its generators.
C10_Witness ==
  /\ pc = "compute"
  /\ \A w \in Workers :
       /\ wk[w].row # Idle
       /\ Len(wk[w].buf) = 1
       /\ wk[w].fast # Uninit
       /\ wk[w].rand # Uninit
  /\ wk[1].fast # wk[2].fast

\* C11 as stated: two distinct workers never pass the same seed
\* (time_seed XOR thread_id) to Xoshiro256::new.
C11_SeedsDiffer ==
  \A v, w \in Workers :
    (v # w /\ IsSome(wk[v].seed) /\ IsSome(wk[w].seed)) =>
      Unwrap(wk[v].seed) # Unwrap(wk[w].seed)

\* C12 as stated: an I/O failure on the output stream, at whatever step of
\* render, is returned to the caller as an error; a render never ends in a
\* panic, and one that returned Ok has written every line.
C12_FailuresReturned ==
  /\ pc # "panic"
  /\ pc = "done" => Len(out) = 3 + camera.image_width * camera.image_height

\* The lines of one row, its pixels made left to right from the random
\* sources rs: [lines |-> .., rs |-> the sources after]
RECURSIVE RowLines(_, _, _, _, _, _)
RowLines(cam, world, y, x, acc, rs) ==
  LET With(p) ==
        RowLines(cam, world, y, x + 1,
                 Append(acc, ColorLine(PixelOf(cam, x, y, 0, p.samples).color)), p.rs)
  IN IF x = cam.image_width THEN [lines |-> acc, rs |-> rs]
     ELSE With(PixelSamples(cam, world, x, y, cam.samples_per_pixel, <<>>, rs))

\* The pixel lines of the render in which the rows are dealt to the workers
\* in turn (row y to worker y mod NumWorkers + 1) and made top to bottom;
\* gens gives each worker's random sources.
RECURSIVE RenderInTurn(_, _, _, _, _)
RenderInTurn(cam, world, y, gens, acc) ==
  LET w == (y % NumWorkers) + 1
      With(r) == RenderInTurn(cam, world, y + 1, [gens EXCEPT ![w] = r.rs], acc \o r.lines)
  IN IF y = cam.image_height THEN acc
     ELSE With(RowLines(cam, world, y, 0, <<>>, gens[w]))

\* the random sources of the workers, made from the seeds this run used
SameSources ==
  [w \in Workers |->
     [fast |-> XoshiroNew(Unwrap(wk[w].seed)), rand |-> XoshiroNew(Unwrap(wk[w].os_seed)),
      tid |-> ThreadId(w), now |-> 0, entropy |-> 0]]

\* C13 as stated: with the random sources fixed (every worker's generators
\* seeded as in this run), the output does not depend on which worker made
\* which row: it is the output of the render that deals the rows in turn.
C13_SameSourceSameOutput ==
  ( /\ pc = "done"
    /\ \A w \in Workers : IsSome(wk[w].seed) /\ IsSome(wk[w].os_seed) ) =>
    [k \in 1..Written |-> out[3 + k].rgb]
      = RenderInTurn(camera, scene, 0, SameSources, <<>>)

\* ---------------------------------------------------- claims on the builder
\* the value the last call of a field's setter gave, or the default
RECURSIVE LastSet(_, _, _)
LastSet(log, field, default) ==
  IF log = <<>> THEN default
  ELSE IF log[Len(log)][1] = field THEN log[Len(log)][2]
       ELSE LastSet(SubSeq(log, 1, Len(log) - 1), field, default)

\* C14: each field of the builder holds the last value its own setter was
\* given, or nothing if that setter was never called, whatever was set on
\* the other fields; build hands Camera::initialize the set values and, for
\* the unset fields, the defaults 400, 16/9, 100, 50, 90, the origin,
\* (0,0,-1), +Y, 0 and 100; initialize is called once, by build.
C14_BuildResolvesFields ==
  /\ \A f \in DOMAIN builder :
       builder[f] = IF \E k \in 1..Len(calls.setters) : calls.setters[k][1] = f
                    THEN <<LastSet(calls.setters, f, 0)>>
                    ELSE <<>>
  /\ calls.initialize = (IF built = <<>> THEN 0 ELSE 1)
  /\ built # <<>> =>
       built[1] = Initialize(LastSet(calls.setters, "image_width", 400),
                             LastSet(calls.setters, "aspect_ratio", (16 * One) \div 9),
                             LastSet(calls.setters, "samples_per_pixel", 100),
                             LastSet(calls.setters, "max_depth", 50),
                             LastSet(calls.setters, "vertical_fov", 90 * One),
                             LastSet(calls.setters, "look_from", <<0, 0, 0>>),
                             LastSet(calls.setters, "look_at", <<0, 0, -One>>),
                             LastSet(calls.setters, "v_up", <<0, One, 0>>),
                             LastSet(calls.setters, "defocus_angle", 0),
                             LastSet(calls.setters, "focus_dist", 100 * One))

\* C14 witness: a camera built after image_width was set twice, to
\* different values, and max_depth once; the other fields at their defaults.
C14_Witness ==
  /\ built # <<>>
  /\ calls.setters = << <<"image_width", 2>>, <<"max_depth", 1>>, <<"image_width", 1>> >>
  /\ built[1].image_width = 1
  /\ built[1].max_depth = 1
  /\ built[1].samples_per_pixel = 100

\* ------------------------------------------------- claims on the integrator
\* the samples of every pixel made so far
AllSamples == UNION { { p.samples[k] : k \in 1..Len(p.samples) } : p \in AllPixels }

\* attenuation k of a path times (attenuation k+1 times (... times the
\* terminal colour)), channel by channel
RECURSIVE PathProduct(_, _, _)
PathProduct(path, k, terminal) ==
  IF k > Len(path) THEN terminal
  ELSE LET rest == PathProduct(path, k + 1, terminal)
       IN << (path[k][1] * rest[1]) \div One,
             (path[k][2] * rest[2]) \div One,
             (path[k][3] * rest[3]) \div One >>

C16_ScatterOutcomes ==
  phase = "scatter" =>
    LET m == answer.material
        rec == answer.hit[1]
        n == rec.outward_normal
        d == query.ray.direction
        reflected == VSub(d, VScale(FMul(2 * One, VDot(d, n)), n))
        fuzzed == VAdd(VNormalize(reflected), VScale(m.fuzz, answer.unit_vector))
        out_dot == VDot(fuzzed, n)
        res == answer.scatter
    IN /\ res = <<>> => m.kind = "Metal"
       /\ m.kind = "Metal" => (res = <<>> <=> out_dot <= 0)
       /\ (m.kind = "Metal" /\ res # <<>>) =>
            res[1][1] = m.albedo /\ res[1][2].direction = fuzzed
       /\ m.kind = "Lambertian" => res # <<>> /\ res[1][1] = m.albedo
       /\ m.kind = "Dielectric" => res # <<>> /\ res[1][1] = <<One, One, One>>
       /\ res # <<>> => res[1][2].origin = rec.point

\* C16 witness: a fuzzy Metal that absorbed, its perturbed direction
\* pointing into the surface.
C16_Witness ==
  /\ phase = "scatter"
  /\ answer.material.kind = "Metal"
  /\ answer.material.fuzz > 0
  /\ answer.scatter = <<>>

\* ------------------------------------------------ claims on the row workers
\* C17: every pixel of the image is made once, by one worker: a row is held
\* by at most one worker and is never taken again, each of its pixels is
\* computed once, as the sum of samples_per_pixel samples scaled by
\* 1 / samples_per_pixel, and the collected image has one pixel for every
\* (x, y) of the image.
C17_EachPixelOnce ==
  /\ \A v, w \in Workers : (v # w /\ wk[v].row # Idle) => wk[v].row # wk[w].row
  /\ \A y \in DOMAIN rows :
       /\ rows[y].st = "run" <=> \E w \in Workers : wk[w].row = y
       /\ rows[y].st = "todo" => rows[y].made = 0
       /\ rows[y].st = "done" =>
            /\ rows[y].made = camera.image_width
            /\ Len(rows[y].pixels) = camera.image_width
            /\ \A k \in 1..Len(rows[y].pixels) :
                 /\ rows[y].pixels[k].x = k - 1
                 /\ rows[y].pixels[k].y = y
                 /\ \A j \in 1..Len(rows[y].pixels) :
                      rows[y].pixels[j].by = rows[y].pixels[k].by
       /\ \A w \in Workers : wk[w].row = y => rows[y].made = Len(wk[w].buf)
  /\ \A p \in AllPixels :
       /\ Len(p.samples) = camera.samples_per_pixel
       /\ \A c \in 1..3 :
            p.color[c] =
              IF camera.samples_per_pixel = 0 THEN NaN
              ELSE ((One \div camera.samples_per_pixel)
                      * (IF Len(p.samples) = 0 THEN 0
                         ELSE IF Len(p.samples) = 1 THEN p.samples[1].v[c]
                         ELSE p.samples[1].v[c] + p.samples[2].v[c])) \div One
  /\ pc \in {"write", "done", "panic"} =>
       /\ Len(pixels) = camera.image_width * camera.image_height
       /\ \A x \in 0..(camera.image_width - 1), y \in 0..(camera.image_height - 1) :
            Cardinality({ k \in 1..Len(pixels) : pixels[k].x = x /\ pixels[k].y = y }) = 1

\* C17 witness: a 2x2 image with two samples a pixel, collected, its rows
\* made by different workers.
C17_Witness ==
  /\ pc = "write"
  /\ camera.image_width = 2 /\ camera.image_height = 2
  /\ camera.samples_per_pixel = 2
  /\ Len(pixels) = 4
  /\ pixels[1].by # pixels[3].by
  /\ pixels[1].color # pixels[2].color

\* C18: the progress counter is advanced by 100 * image_width once for each
\* finished row whose index is a multiple of 100 and by nothing else, so it
\* ends at 100 * image_width * ceil(image_height / 100); a worker that holds
\* a row can always finish it and an idle worker can always take a row the
\* pool has to give, whatever the counter shows and the other workers do.
C18_ProgressCounter ==
  /\ bar = 100 * camera.image_width
             * Cardinality({ y \in DOMAIN rows : rows[y].st = "done" /\ y % 100 = 0 })
  /\ (\A y \in DOMAIN rows : rows[y].st = "done") =>
       bar = 100 * camera.image_width * ((camera.image_height + 99) \div 100)
  /\ \A w \in Workers :
       /\ wk[w].row # Idle => ENABLED RowClosure(w)
       /\ (wk[w].row = Idle /\ Takeable(rows, camera.image_height) # {}) =>
            ENABLED TakeRow(w)

\* C18 witness: an image of 111 rows one pixel wide, every row finished: the
\* counter stands at 200, advanced for the rows 0 and 100.
C18_Witness ==
  /\ camera.image_height = 111
  /\ camera.image_width = 1
  /\ \A y \in DOMAIN rows : rows[y].st = "done"
  /\ bar = 200

\* --------------------------------------------------- claims on render's steps
\* C19: render creates the file, writes the header, computes the pixels,
\* writes the pixel lines and flushes, in this order: nothing is computed
\* before the header is written or after a failure of the creation or of the
\* header, no pixel line is written before every pixel is computed, and the
\* flush comes after the last pixel line.
C19_StepOrder ==
  /\ [](/\ (pc \in {"create", "header"} \/ (pc = "err" /\ Len(out) < 3)) =>
             /\ AllPixels = {}
             /\ \A y \in DOMAIN rows : rows[y].st = "todo"
             /\ Written = 0
        /\ pc = "compute" => out = PpmHeader(camera)
        /\ Written > 0 =>
             /\ pc \in {"write", "done", "err", "panic"}
             /\ \A y \in DOMAIN rows : rows[y].st = "done" /\ rows[y].made = camera.image_width
             /\ Len(pixels) = camera.image_width * camera.image_height
        /\ (pc = "done" \/ (pc = "err" /\ Len(out) > 3)) =>
             Written = camera.image_width * camera.image_height)
  /\ [][pc' # pc =>
          <<pc, pc'>> \in { <<"create", "header">>, <<"create", "err">>,
                            <<"header", "compute">>, <<"header", "err">>,
                            <<"compute", "write">>,
                            <<"write", "panic">>, <<"write", "done">>, <<"write", "err">> }]_vars

\* C19 witness: the flush failed, after the four pixel lines of a 2x2 image
\* were written.
C19_Witness ==
  /\ pc = "err"
  /\ camera.image_width = 2 /\ camera.image_height = 2
  /\ Len(out) = 3 + 4
  /\ Len(done_order) = 2

====
